---------------------------- MODULE Spec2Model ----------------------------
(***************************************************************************)
(* proposal_app.py: a Streamlit page that validates a form, asks a hosted  *)
(* text-generation service for a proposal, cleans the returned text, lays  *)
(* it out as a PDF at the fixed path ./proposal.pdf and offers that file   *)
(* for download.                                                           *)
(*                                                                         *)
(* A text is a sequence of one-character strings.                          *)
(***************************************************************************)
EXTENDS Integers, Sequences, FiniteSets, TLC

\* Longest raw text the normalizer is applied to.
MaxLen == 5

\* Characters of the raw texts the normalizer is applied to: the emphasis
\* marker, both brackets, a blank, a line break and an ordinary character.
Alphabet == {"*", "[", "]", " ", "\n", "a"}

\* Characters str.strip() removes from both ends.
Whitespace == {" ", "\n", "\t", "\r"}

\* Every text of at most MaxLen characters over Alphabet.
Texts == UNION {[1..n -> Alphabet] : n \in 0..MaxLen}

(***************************************************************************)
(* clean_proposal_text                                                     *)
(***************************************************************************)

\* Last index of the run of "*" that starts at index i (text[i] = "*").
StarRunEnd(text, i) ==
    CHOOSE j \in i..Len(text) :
        /\ \A k \in i..j : text[k] = "*"
        /\ (j = Len(text) \/ text[j + 1] # "*")

RECURSIVE SubStarsFrom(_, _)
\* re.sub(r"\*+", "", text), scanning from index i: each maximal run of
\* "*" is a match and is replaced by nothing.
SubStarsFrom(text, i) ==
    IF i > Len(text) THEN << >>
    ELSE IF text[i] = "*" THEN SubStarsFrom(text, StarRunEnd(text, i) + 1)
    ELSE <<text[i]>> \o SubStarsFrom(text, i + 1)

SubStars(text) == SubStarsFrom(text, 1)

\* Index of the "]" that ends the match of \[.*?\] starting at the "[" at
\* index i, or 0 when there is no match there: the nearest later "]",
\* provided no line break lies in between ("." does not match "\n").
BracketMatchEnd(text, i) ==
    LET closes == {j \in (i + 1)..Len(text) :
                      /\ text[j] = "]"
                      /\ \A k \in (i + 1)..(j - 1) : text[k] # "\n"}
    IN  IF closes = {} THEN 0
        ELSE CHOOSE j \in closes : \A k \in closes : j <= k

RECURSIVE SubBracketsFrom(_, _)
\* re.sub(r"\[.*?\]", "", text), scanning from index i: leftmost match
\* first, the scan resumes right after each match.
SubBracketsFrom(text, i) ==
    IF i > Len(text) THEN << >>
    ELSE IF text[i] = "[" /\ BracketMatchEnd(text, i) # 0
         THEN SubBracketsFrom(text, BracketMatchEnd(text, i) + 1)
    ELSE <<text[i]>> \o SubBracketsFrom(text, i + 1)

SubBrackets(text) == SubBracketsFrom(text, 1)

\* text.strip(): drops the whitespace at both ends.
strip(text) ==
    LET keep == {k \in 1..Len(text) : text[k] \notin Whitespace}
    IN  IF keep = {} THEN << >>
        ELSE LET lo == CHOOSE k \in keep : \A m \in keep : k <= m
                 hi == CHOOSE k \in keep : \A m \in keep : k >= m
             IN  SubSeq(text, lo, hi)

\* A variant that trims before the placeholders are removed.
clean_proposal_text_StripFirst(text) == SubBrackets(strip(SubStars(text)))

clean_proposal_text(text) == strip(SubBrackets(SubStars(text)))


(***************************************************************************)
(* The page                                                                *)
(***************************************************************************)

\* Browser sessions running the script against the one server process.
Invocations == {"A", "B"}

\* Values typed into the form.  Text inputs start empty and the budget
\* input has min_value=0.
ClientNames   == {"", "Acme"}
Services      == {"", "SEO"}
Budgets       == {0, 500}
ContactNames  == {"", "Ann", "Bob"}
ContactEmails == {"", "ann@x.io"}
ContactPhones == {"", "555"}

EmptyForm == [client_name |-> "", service |-> "", budget |-> 0,
              contact_name |-> "", contact_email |-> "",
              contact_phone |-> ""]

\* Completions the generation service may return.
RawTexts == { <<"*", "*", "H", "i", "*", "*", " ", "[", "N", "]">>,
              <<"[", "a", "\n", "b", "]", " ">> }

VARIABLES
    font_exists,    \* os.path.exists(font_path)
    file,           \* ./proposal.pdf: << >> when absent, else <<contents>>
    pc,             \* per invocation: position of the script run
    form,           \* per invocation: the widget values
    calls,          \* per invocation: prompts sent to the service this run
    response,       \* per invocation: result of the generation call
    proposal_text,  \* per invocation: local proposal_text
    pdf,            \* per invocation: local FPDF object, a list of regions
    screen,         \* per invocation: elements the run has put on the page
    outcome,        \* per invocation: how the last run ended
    file_at_click,  \* per invocation: ./proposal.pdf when the last run began
    raw,            \* normalizer alone: the input text
    passes          \* normalizer alone: results of successive applications

vars == <<font_exists, file, pc, form, calls, response, proposal_text, pdf,
          screen, outcome, file_at_click, raw, passes>>

norm_vars == <<raw, passes>>

page_vars == <<font_exists, file, pc, form, calls, response, proposal_text,
               pdf, screen, outcome, file_at_click>>

BlankScreen == [warnings |-> << >>, errors |-> << >>, text |-> << >>,
                download |-> << >>, link |-> << >>]

NoResponse == [kind |-> "none", content |-> << >>]

\* Line 54: the condition of the validation branch.
MissingRequired_NoSender(f) ==
    f.client_name = "" \/ f.service = "" \/ f.budget <= 0

MissingRequired(f) ==
    f.client_name = "" \/ f.service = "" \/ f.budget <= 0
        \/ f.contact_name = ""

\* Lines 60-67: the variable parts of the prompt.
Prompt(f) == [sender |-> f.contact_name, client |-> f.client_name,
              service |-> f.service, budget |-> f.budget]

\* Line 110: the footer text, one entry per line; a line is <<label, value>>.
Footer_PhoneFromEmail(f) ==
    << <<"---", "">>,
       <<"Prepared by: ", f.contact_name>>,
       <<"Email: ", f.contact_email>>,
       <<"Phone: ", f.contact_email>> >>

Footer(f) ==
    << <<"---", "">>,
       <<"Prepared by: ", f.contact_name>>,
       <<"Email: ", f.contact_email>>,
       <<"Phone: ", f.contact_phone>> >>

\* Lines 97-112: the regions written to the page, in the order written.
Regions(text, f) ==
    << [region |-> "title", align |-> "C", content |-> "Business Proposal"],
       [region |-> "body", align |-> "J", content |-> text],
       [region |-> "footer", align |-> "L", content |-> Footer(f)] >>

\* Line 116: what pdf.output leaves at the path.
Written_KeepExisting(old, doc) ==
    IF old = << >> THEN << [doc |-> doc, complete |-> TRUE] >> ELSE old

Written(old, doc) == << [doc |-> doc, complete |-> TRUE] >>

\* Lines 124-127: the bytes handed to the download button.
ReadForDownload_OwnPdf(path_contents, own_pdf) ==
    << [doc |-> own_pdf, complete |-> TRUE] >>

ReadForDownload(path_contents, own_pdf) == path_contents

\* The script run ends; its locals are gone.
EndRun(i, how) ==
    /\ pc' = [pc EXCEPT ![i] = "idle"]
    /\ outcome' = [outcome EXCEPT ![i] = how]

\* Line 148: st.error inside the except clause.
ShowError(i, scr) == [scr EXCEPT !.errors = Append(@, "Error")]

Init ==
    /\ font_exists \in BOOLEAN
    /\ file = << >>
    /\ pc = [i \in Invocations |-> "idle"]
    /\ form = [i \in Invocations |-> EmptyForm]
    /\ calls = [i \in Invocations |-> << >>]
    /\ response = [i \in Invocations |-> NoResponse]
    /\ proposal_text = [i \in Invocations |-> << >>]
    /\ pdf = [i \in Invocations |-> << >>]
    /\ screen = [i \in Invocations |-> BlankScreen]
    /\ outcome = [i \in Invocations |-> "none"]
    /\ file_at_click = [i \in Invocations |-> << >>]
    /\ raw = << >>
    /\ passes = << >>

\* A widget value changes: the script reruns with the button not pressed
\* (line 53 is false) and the page shows the form alone.
EditForm(i) ==
    /\ pc[i] = "idle"
    /\ \E f \in { [form[i] EXCEPT !.client_name = v] : v \in ClientNames }
               \cup { [form[i] EXCEPT !.service = v] : v \in Services }
               \cup { [form[i] EXCEPT !.budget = v] : v \in Budgets }
               \cup { [form[i] EXCEPT !.contact_name = v] : v \in ContactNames }
               \cup { [form[i] EXCEPT !.contact_email = v] : v \in ContactEmails }
               \cup { [form[i] EXCEPT !.contact_phone = v] : v \in ContactPhones } :
          /\ f # form[i]
          /\ form' = [form EXCEPT ![i] = f]
    /\ screen' = [screen EXCEPT ![i] = BlankScreen]
    /\ calls' = [calls EXCEPT ![i] = << >>]
    /\ response' = [response EXCEPT ![i] = NoResponse]
    /\ proposal_text' = [proposal_text EXCEPT ![i] = << >>]
    /\ pdf' = [pdf EXCEPT ![i] = << >>]
    /\ outcome' = [outcome EXCEPT ![i] = "none"]
    /\ UNCHANGED <<font_exists, file, pc,
                   file_at_click, norm_vars>>

\* Lines 53-55: the button is pressed with a required field missing.
SubmitInvalid(i) ==
    /\ pc[i] = "idle"
    /\ MissingRequired(form[i])
    /\ screen' = [screen EXCEPT ![i] =
                     [BlankScreen EXCEPT !.warnings = <<"Please fill all required fields">>]]
    /\ calls' = [calls EXCEPT ![i] = << >>]
    /\ response' = [response EXCEPT ![i] = NoResponse]
    /\ proposal_text' = [proposal_text EXCEPT ![i] = << >>]
    /\ pdf' = [pdf EXCEPT ![i] = << >>]
    /\ file_at_click' = [file_at_click EXCEPT ![i] = file]
    /\ EndRun(i, "invalid")
    /\ UNCHANGED <<font_exists, file, form, norm_vars>>

\* A variant that opens the output path for writing before anything else.
SubmitValid_TruncatesFile(i) ==
    /\ pc[i] = "idle"
    /\ ~MissingRequired(form[i])
    /\ screen' = [screen EXCEPT ![i] = BlankScreen]
    /\ calls' = [calls EXCEPT ![i] = << >>]
    /\ response' = [response EXCEPT ![i] = NoResponse]
    /\ proposal_text' = [proposal_text EXCEPT ![i] = << >>]
    /\ pdf' = [pdf EXCEPT ![i] = << >>]
    /\ file_at_click' = [file_at_click EXCEPT ![i] = file]
    /\ file' = << [doc |-> << >>, complete |-> FALSE] >>
    /\ pc' = [pc EXCEPT ![i] = "generate"]
    /\ outcome' = [outcome EXCEPT ![i] = "none"]
    /\ UNCHANGED <<font_exists, form, norm_vars>>

\* Lines 53-54, 56-67: the button is pressed with the required fields
\* filled; the run reaches the generation call.
SubmitValid(i) ==
    /\ pc[i] = "idle"
    /\ ~MissingRequired(form[i])
    /\ screen' = [screen EXCEPT ![i] = BlankScreen]
    /\ calls' = [calls EXCEPT ![i] = << >>]
    /\ response' = [response EXCEPT ![i] = NoResponse]
    /\ proposal_text' = [proposal_text EXCEPT ![i] = << >>]
    /\ pdf' = [pdf EXCEPT ![i] = << >>]
    /\ file_at_click' = [file_at_click EXCEPT ![i] = file]
    /\ pc' = [pc EXCEPT ![i] = "generate"]
    /\ outcome' = [outcome EXCEPT ![i] = "none"]
    /\ UNCHANGED <<font_exists, file, form, norm_vars>>

\* A variant that calls the service again after a failed call.
GenerationRaises_Retry(i) ==
    /\ pc[i] = "generate"
    /\ Len(calls[i]) < 2
    /\ calls' = [calls EXCEPT ![i] = Append(@, Prompt(form[i]))]
    /\ response' = [response EXCEPT ![i] = [kind |-> "raised", content |-> << >>]]
    /\ UNCHANGED <<font_exists, file, form, proposal_text, pdf, pc, screen,
                   outcome, file_at_click, norm_vars>>

\* Lines 70-73, 147-148: the call raises (network, auth, quota).
GenerationRaises(i) ==
    /\ pc[i] = "generate"
    /\ calls' = [calls EXCEPT ![i] = Append(@, Prompt(form[i]))]
    /\ response' = [response EXCEPT ![i] = [kind |-> "raised", content |-> << >>]]
    /\ screen' = [screen EXCEPT ![i] = ShowError(i, @)]
    /\ EndRun(i, "generation_error")
    /\ UNCHANGED <<font_exists, file, form, proposal_text, pdf,
                   file_at_click, norm_vars>>

\* Lines 70-75, 147-148: the call returns a response without a usable
\* choices[0].message.content; line 75 raises.
ResponseMalformed(i) ==
    /\ pc[i] = "generate"
    /\ calls' = [calls EXCEPT ![i] = Append(@, Prompt(form[i]))]
    /\ response' = [response EXCEPT ![i] = [kind |-> "malformed", content |-> << >>]]
    /\ screen' = [screen EXCEPT ![i] = ShowError(i, @)]
    /\ EndRun(i, "malformed_response")
    /\ UNCHANGED <<font_exists, file, form, proposal_text, pdf,
                   file_at_click, norm_vars>>

\* Lines 70-86: the call returns a completion, which is cleaned; an empty
\* one-page FPDF object is set up.
GenerationReturns(i) ==
    /\ pc[i] = "generate"
    /\ calls' = [calls EXCEPT ![i] = Append(@, Prompt(form[i]))]
    /\ \E content \in RawTexts :
          /\ response' = [response EXCEPT ![i] = [kind |-> "ok", content |-> content]]
          /\ proposal_text' = [proposal_text EXCEPT ![i] = clean_proposal_text(content)]
    /\ pdf' = [pdf EXCEPT ![i] = << >>]
    /\ pc' = [pc EXCEPT ![i] = "font"]
    /\ UNCHANGED <<font_exists, file, form, screen, outcome,
                   file_at_click, norm_vars>>

\* Lines 89-92: the font file is absent; st.error, then st.stop() ends the
\* run (the stop is not an Exception, the except clause does not see it).
FontMissing(i) ==
    /\ pc[i] = "font"
    /\ ~font_exists
    /\ screen' = [screen EXCEPT ![i].errors = Append(@, "Missing DejaVuSans.ttf")]
    /\ EndRun(i, "font_missing")
    /\ UNCHANGED <<font_exists, file, form, calls, response, proposal_text,
                   pdf,
                   file_at_click, norm_vars>>

\* Lines 89-112: the font is there; title, body and footer are laid out.
AssemblePdf(i) ==
    /\ pc[i] = "font"
    /\ font_exists
    /\ pdf' = [pdf EXCEPT ![i] = Regions(proposal_text[i], form[i])]
    /\ pc' = [pc EXCEPT ![i] = "save"]
    /\ UNCHANGED <<font_exists, file, form, calls, response, proposal_text,
                   screen, outcome,
                   file_at_click, norm_vars>>

\* Lines 89-112, 147-148: add_font or a cell call raises.
AssemblyFails(i) ==
    /\ pc[i] = "font"
    /\ font_exists
    /\ screen' = [screen EXCEPT ![i] = ShowError(i, @)]
    /\ EndRun(i, "assembly_error")
    /\ UNCHANGED <<font_exists, file, form, calls, response, proposal_text,
                   pdf,
                   file_at_click, norm_vars>>

\* Lines 115-116: pdf.output writes ./proposal.pdf.
SavePdf(i) ==
    /\ pc[i] = "save"
    /\ file' = Written(file, pdf[i])
    /\ pc' = [pc EXCEPT ![i] = "offer"]
    /\ UNCHANGED <<font_exists, form, calls, response, proposal_text, pdf,
                   screen, outcome,
                   file_at_click, norm_vars>>

\* A variant that shows the text before the file is written.
SavePdfFails_AfterDisplay(i) ==
    /\ pc[i] = "save"
    /\ \/ file' = file
       \/ file' = << [doc |-> << >>, complete |-> FALSE] >>
    /\ screen' = [screen EXCEPT ![i] =
                     ShowError(i, [@ EXCEPT !.text = <<proposal_text[i]>>])]
    /\ EndRun(i, "write_error")
    /\ UNCHANGED <<font_exists, form, calls, response, proposal_text, pdf,
                   file_at_click, norm_vars>>

\* Lines 115-116, 147-148: pdf.output raises; the path is untouched (the
\* open failed) or holds a cut-off file (the write failed).
SavePdfFails(i) ==
    /\ pc[i] = "save"
    /\ \/ file' = file
       \/ file' = << [doc |-> << >>, complete |-> FALSE] >>
    /\ screen' = [screen EXCEPT ![i] = ShowError(i, @)]
    /\ EndRun(i, "write_error")
    /\ UNCHANGED <<font_exists, form, calls, response, proposal_text, pdf,
                   file_at_click, norm_vars>>

\* Lines 121-145: the text is shown, the file is read back and offered
\* for download, the share link and the e-mail input are added.
OfferDownload(i) ==
    /\ pc[i] = "offer"
    /\ file # << >>
    /\ screen' = [screen EXCEPT
                     ![i].text = <<proposal_text[i]>>,
                     ![i].download = ReadForDownload(file, pdf[i]),
                     ![i].link = <<form[i].client_name>>]
    /\ EndRun(i, "ok")
    /\ UNCHANGED <<font_exists, file, form, calls, response, proposal_text,
                   pdf,
                   file_at_click, norm_vars>>

\* Lines 121-124, 147-148: the text is shown, then open() raises.
OpenFails(i) ==
    /\ pc[i] = "offer"
    /\ screen' = [screen EXCEPT ![i] =
                     ShowError(i, [@ EXCEPT !.text = <<proposal_text[i]>>])]
    /\ EndRun(i, "read_error")
    /\ UNCHANGED <<font_exists, file, form, calls, response, proposal_text,
                   pdf,
                   file_at_click, norm_vars>>

\* The font file is put into, or taken out of, the fonts folder.
FontInstalledOrRemoved ==
    /\ font_exists' = ~font_exists
    /\ UNCHANGED <<file, pc, form, calls, response, proposal_text, pdf,
                   screen, outcome, file_at_click, norm_vars>>

\* The steps of a run that has passed validation.
RunStep(i) ==
    \/ GenerationRaises(i)
    \/ ResponseMalformed(i)
    \/ GenerationReturns(i)
    \/ FontMissing(i)
    \/ AssemblePdf(i)
    \/ AssemblyFails(i)
    \/ SavePdf(i)
    \/ SavePdfFails(i)
    \/ OfferDownload(i)
    \/ OpenFails(i)

\* One session: requests follow one another.
Next ==
    \/ EditForm("A")
    \/ SubmitInvalid("A")
    \/ SubmitValid("A")
    \/ RunStep("A")
    \/ FontInstalledOrRemoved

Spec == Init /\ [][Next]_vars

\* Two sessions against the one process, each run in its own thread.
\* Both forms are filled in, with different sender details, and the button
\* of either session may be pressed while the other session's run is under
\* way.
FormA == [client_name |-> "Acme", service |-> "SEO", budget |-> 500,
          contact_name |-> "Ann", contact_email |-> "ann@x.io",
          contact_phone |-> "555"]

FormB == [client_name |-> "Acme", service |-> "SEO", budget |-> 500,
          contact_name |-> "Bob", contact_email |-> "",
          contact_phone |-> ""]

InitOverlap ==
    /\ font_exists \in BOOLEAN
    /\ file = << >>
    /\ pc = [i \in Invocations |-> "idle"]
    /\ form = [i \in Invocations |-> IF i = "A" THEN FormA ELSE FormB]
    /\ calls = [i \in Invocations |-> << >>]
    /\ response = [i \in Invocations |-> NoResponse]
    /\ proposal_text = [i \in Invocations |-> << >>]
    /\ pdf = [i \in Invocations |-> << >>]
    /\ screen = [i \in Invocations |-> BlankScreen]
    /\ outcome = [i \in Invocations |-> "none"]
    /\ file_at_click = [i \in Invocations |-> << >>]
    /\ raw = << >>
    /\ passes = << >>

NextOverlap ==
    \/ \E i \in Invocations : SubmitValid(i) \/ RunStep(i)
    \/ FontInstalledOrRemoved

SpecOverlap == InitOverlap /\ [][NextOverlap]_vars

(***************************************************************************)
(* The normalizer on its own, applied to every text of Texts, twice.       *)
(***************************************************************************)
InitNorm ==
    /\ font_exists = TRUE
    /\ file = << >>
    /\ pc = [i \in Invocations |-> "idle"]
    /\ form = [i \in Invocations |-> EmptyForm]
    /\ calls = [i \in Invocations |-> << >>]
    /\ response = [i \in Invocations |-> NoResponse]
    /\ proposal_text = [i \in Invocations |-> << >>]
    /\ pdf = [i \in Invocations |-> << >>]
    /\ screen = [i \in Invocations |-> BlankScreen]
    /\ outcome = [i \in Invocations |-> "none"]
    /\ file_at_click = [i \in Invocations |-> << >>]
    /\ raw \in Texts
    /\ passes = << >>

Normalize ==
    /\ passes = << >>
    /\ passes' = <<clean_proposal_text(raw)>>
    /\ UNCHANGED <<raw, page_vars>>

NormalizeAgain ==
    /\ Len(passes) = 1
    /\ passes' = Append(passes, clean_proposal_text(passes[1]))
    /\ UNCHANGED <<raw, page_vars>>

NextNorm == Normalize \/ NormalizeAgain

SpecNorm == InitNorm /\ [][NextNorm]_vars

(***************************************************************************)
(* Properties                                                              *)
(***************************************************************************)

\* The run of invocation i is over (and the form has not been touched since).
Finished(i) == pc[i] = "idle" /\ outcome[i] # "none"

\* The contact lines of the footer region of a stored document.
FooterLines(stored) == stored.doc[3].content

\* C1: whenever the form of a session has an empty client name, service or
\* sender name, or a budget <= 0, no run of that form gets past validation:
\* no prompt has been sent to the generation service, and a run that was
\* started by the button ended with exactly one validation warning.
C1_InvalidRequestNeverGenerates ==
    \A i \in Invocations :
        (\/ form[i].client_name = ""
         \/ form[i].service = ""
         \/ form[i].contact_name = ""
         \/ form[i].budget <= 0)
        => /\ pc[i] = "idle"
           /\ calls[i] = << >>
           /\ outcome[i] \in {"none", "invalid"}
           /\ outcome[i] = "invalid"
                 => /\ Len(screen[i].warnings) = 1
                    /\ screen[i].errors = << >>
                    /\ screen[i].download = << >>

\* C1 witness: the button was pressed with only the sender name missing.
C1_Witness ==
    /\ form["A"].client_name = "Acme" /\ form["A"].service = "SEO"
    /\ form["A"].budget = 500 /\ form["A"].contact_name = ""
    /\ outcome["A"] = "invalid"
    /\ Len(screen["A"].warnings) = 1

\* C2: the result of clean_proposal_text holds no "*" and no "[" that is
\* followed, anywhere later in the result, by a "]".
C2_NoEmphasisNoBracketedSpan ==
    Len(passes) >= 1 =>
        LET out == passes[1]
        IN  /\ \A k \in 1..Len(out) : out[k] # "*"
            /\ ~ \E k \in 1..Len(out) : \E m \in (k + 1)..Len(out) :
                     out[k] = "[" /\ out[m] = "]"

\* C3: clean_proposal_text is idempotent: applied to its own result it
\* returns that result.
C3_Idempotent ==
    Len(passes) = 2 => passes[2] = passes[1]

\* C3 witness: both applications were made to a text with a line break
\* whose first result is shorter than the text and keeps a "[".
C3_Witness ==
    /\ Len(passes) = 2
    /\ \E k \in 1..Len(raw) : raw[k] = "\n"
    /\ Len(passes[1]) < Len(raw)
    /\ \E k \in 1..Len(passes[1]) : passes[1][k] = "["

\* C4: a run that stopped on the missing font has sent no prompt to the
\* generation service.
C4_FontCheckedBeforeGeneration ==
    \A i \in Invocations :
        outcome[i] = "font_missing" => calls[i] = << >>

\* C5: a run that ended with a failed generation call, a malformed
\* response, or a failed assembly or write shows exactly one error message,
\* no download and no proposal text, and the session can start a new run.
C5_FailureIsOneMessage ==
    \A i \in Invocations :
        outcome[i] \in {"generation_error", "malformed_response",
                        "assembly_error", "write_error"}
        => /\ Len(screen[i].errors) = 1
           /\ screen[i].warnings = << >>
           /\ screen[i].download = << >>
           /\ screen[i].text = << >>
           /\ pc[i] = "idle"
           /\ ENABLED SubmitValid(i)

\* C5 witness: a run ended on a failed write.
C5_Witness ==
    /\ outcome["A"] = "write_error"
    /\ Len(screen["A"].errors) = 1

\* C6: a run that ended well offers a complete document made of, in this
\* order, the title "Business Proposal", the cleaned completion as body
\* (the very text shown on the page), and a footer of a separator line
\* followed by the sender name, email and phone of the form, one per line.
C6_DocumentLayout ==
    \A i \in Invocations :
        outcome[i] = "ok" =>
            /\ Len(screen[i].download) = 1
            /\ LET got == screen[i].download[1]
               IN  /\ got.complete
                   /\ Len(got.doc) = 3
                   /\ got.doc[1].region = "title"
                   /\ got.doc[1].content = "Business Proposal"
                   /\ got.doc[2].region = "body"
                   /\ got.doc[2].content = clean_proposal_text(response[i].content)
                   /\ screen[i].text = <<got.doc[2].content>>
                   /\ got.doc[3].region = "footer"
                   /\ Len(got.doc[3].content) = 4
                   /\ got.doc[3].content[1][1] = "---"
                   /\ got.doc[3].content[2][2] = form[i].contact_name
                   /\ got.doc[3].content[3][2] = form[i].contact_email
                   /\ got.doc[3].content[4][2] = form[i].contact_phone

\* C6 witness: a run ended well for Ann, with her email and phone, on a
\* completion that the cleaning changed.
C6_Witness ==
    /\ outcome["A"] = "ok"
    /\ form["A"].contact_name = "Ann"
    /\ form["A"].contact_email = "ann@x.io"
    /\ form["A"].contact_phone = "555"
    /\ screen["A"].text # <<response["A"].content>>

\* C7: with one session, every download on the page carries the footer of
\* the form the page was run for.
C7_DownloadIsOwnDocument ==
    \A i \in Invocations :
        screen[i].download # << >> =>
            /\ screen[i].download[1].complete
            /\ FooterLines(screen[i].download[1])[2][2] = form[i].contact_name
            /\ FooterLines(screen[i].download[1])[3][2] = form[i].contact_email
            /\ FooterLines(screen[i].download[1])[4][2] = form[i].contact_phone

\* C7 witness: a download is offered for Bob by a run that began while the
\* path held the document of an earlier run for Ann.
C7_Witness ==
    /\ screen["A"].download # << >>
    /\ form["A"].contact_name = "Bob"
    /\ file_at_click["A"] # << >>
    /\ file_at_click["A"][1].complete
    /\ FooterLines(file_at_click["A"][1])[2][2] = "Ann"
    /\ FooterLines(file_at_click["A"][1])[3][2] # form["A"].contact_email

\* C8: the download button is given whatever the shared path holds at the
\* moment of the read, whoever wrote it.
C8_DownloadIsWhatThePathHolds ==
    [][\A i \in Invocations :
          (screen[i].download = << >> /\ screen'[i].download # << >>)
              => screen'[i].download = file]_vars

\* C8 witness: one session offers the document the other session wrote
\* after its own write.
C8_Witness ==
    \E i \in Invocations : \E j \in Invocations \ {i} :
        /\ outcome[i] = "ok"
        /\ screen[i].download # << >>
        /\ screen[i].download[1].complete
        /\ FooterLines(screen[i].download[1])[2][2] = form[j].contact_name
        /\ form[j].contact_name # form[i].contact_name

\* C9: a run sends at most one prompt: none before or without passing
\* validation, exactly one once the call has been made, whatever its result.
C9_AtMostOneGenerationCall ==
    \A i \in Invocations :
        /\ Len(calls[i]) <= 1
        /\ outcome[i] = "invalid" => calls[i] = << >>
        /\ pc[i] = "generate" => calls[i] = << >>
        /\ (pc[i] \in {"font", "save", "offer"}
              \/ outcome[i] \notin {"none", "invalid"})
           => calls[i] = <<Prompt(form[i])>>

\* C9 witness: a run whose call failed is over.
C9_Witness ==
    /\ outcome["A"] = "generation_error"
    /\ Len(calls["A"]) = 1

\* C10: with one session, a run that was rejected by validation, or failed
\* at the generation call or on the missing font, leaves the path as it was
\* when the run began.
C10_FailedRunLeavesFile ==
    \A i \in Invocations :
        outcome[i] \in {"invalid", "generation_error", "malformed_response",
                        "font_missing"}
        => file = file_at_click[i]

\* C10 witness: a run stopped on the missing font while the path held the
\* document of an earlier run.
C10_Witness ==
    /\ outcome["A"] = "font_missing"
    /\ file # << >>
    /\ file[1].complete

=============================================================================
